---- MODULE Spec2Model ----
(***************************************************************************)
(* Model of server.js (kittenclicker): the in-memory userData Map, the     *)
(* persisted user_data.json file, the POST /userlist, GET /player-count    *)
(* and GET /player-count-stream handlers, and the init() bootstrap.        *)
(*                                                                         *)
(* Node runs every handler to completion on one event loop; a handler      *)
(* gives up control only at an await.  Each action below is one such       *)
(* run-to-completion step.                                                 *)
(***************************************************************************)
EXTENDS Integers, Sequences, FiniteSets, TLC

VARIABLES
    phase,      \* position of init(): "start", "dirReady", "loaded", "listening"
    dirOk,      \* whether DATA_DIR exists after ensureDataDir
    userData,   \* the Map, as its entries in insertion order: Seq of <<id, record>>
    file,       \* content of USER_DATA_FILE
    writes,     \* fs.writeFile calls in flight, in the order they were started
    conns,      \* the stream connections: state, interval timer, parity of events written
    out,        \* what the last step sent or did (response, event, ...)
    dirty,      \* history: what went wrong with this process's writes, a subset of
                \* {"failed", "overlapped"}
    prior       \* history: what the process was like when it was last stopped

vars == <<phase, dirOk, userData, file, writes, conns, out, dirty, prior>>

----------------------------------------------------------------------------
(* Bounds of the model. *)

MaxInFlight == 2
MaxConns == 2

----------------------------------------------------------------------------
(* JavaScript values as they come out of JSON.parse.  t is what typeof      *)
(* answers; n is the numeric value; s distinguishes the others.            *)

Num(n) == [t |-> "number", n |-> n, s |-> ""]
Infinity == [t |-> "number", n |-> 0, s |-> "Infinity"]
Str(x) == [t |-> "string", n |-> 0, s |-> x]
Null == [t |-> "object", n |-> 0, s |-> "null"]
Obj == [t |-> "object", n |-> 0, s |-> "{}"]
True == [t |-> "boolean", n |-> 0, s |-> "true"]
Undefined == [t |-> "undefined", n |-> 0, s |-> ""]

TypeOf(v) == v.t

\* JavaScript truthiness: 0, "", null and undefined are falsy.
Truthy(v) ==
    /\ v # Num(0)
    /\ v # Str("")
    /\ v # Null
    /\ v # Undefined

IsFinite(v) == v.t = "number" /\ v.s = ""

\* x + y on JavaScript numbers.
Plus(x, y) ==
    IF IsFinite(x) /\ IsFinite(y) THEN Num(x.n + y.n) ELSE Infinity

\* obj[k] for an object held as a function from its own keys.
Get(obj, k) == IF k \in DOMAIN obj THEN obj[k] ELSE Undefined

\* JSON.stringify of one value: a non-finite number is written as null.
JsonValue(v) == IF v.t = "number" /\ ~IsFinite(v) THEN Null ELSE v

\* JSON.stringify of an object, key by key.
JsonObject(obj) == [k \in DOMAIN obj |-> JsonValue(obj[k])]

----------------------------------------------------------------------------
(* The file.  Its text is held as what JSON.parse makes of it.             *)

Missing == [kind |-> "missing", entries |-> <<>>]
Corrupt == [kind |-> "corrupt", entries |-> <<>>]

\* Valid JSON that is not a list, such as {}: parsed.forEach is not a function.
NotAList == [kind |-> "object", entries |-> <<>>]

\* Valid JSON, a list whose entries are pairs up to one that is not (null, a
\* number, an object): entries holds the pairs before it.
PairsThenNot(pairs) == [kind |-> "badlist", entries |-> pairs]

\* Mutant: JSON.stringify(userData), which writes a Map as "{}".
StringifyTheMap(m) == [kind |-> "object", entries |-> <<>>]

\* JSON.stringify([...userData.entries()], null, 2)
Stringify(m) ==
    [kind |-> "pairs",
     entries |-> [i \in DOMAIN m |-> <<m[i][1], JsonObject(m[i][2])>>]]

----------------------------------------------------------------------------
(* The Map. *)

EmptyMap == <<>>

\* [...userData.keys()]
MapKeys(m) == {m[i][1] : i \in DOMAIN m}

MapHas(m, k) == \E i \in DOMAIN m : m[i][1] = k

MapGet(m, k) == m[CHOOSE i \in DOMAIN m : m[i][1] = k][2]

\* A store that holds the last submission only: clear() before set().
MapSetFresh(m, k, v) == << <<k, v>> >>

\* Mutant: the new record is merged into the old one (Object.assign) instead
\* of replacing it.
MapSetMerging(m, k, v) ==
    IF MapHas(m, k)
    THEN [i \in DOMAIN m |-> IF m[i][1] = k THEN <<k, v @@ m[i][2]>> ELSE m[i]]
    ELSE Append(m, <<k, v>>)

\* Map.prototype.set: an existing key keeps its place, a new key goes last.
MapSet(m, k, v) ==
    IF MapHas(m, k)
    THEN [i \in DOMAIN m |-> IF m[i][1] = k THEN <<k, v>> ELSE m[i]]
    ELSE Append(m, <<k, v>>)

RECURSIVE SetAll(_, _)
\* parsed.forEach(([id, user]) => userData.set(id, user))
SetAll(m, pairs) ==
    IF pairs = <<>> THEN m
    ELSE SetAll(MapSet(m, Head(pairs)[1], Head(pairs)[2]), Tail(pairs))

----------------------------------------------------------------------------
(* POST /userlist: the record built from a request body.                   *)

\* const { userId, playerCount, ...otherData } = req.body
OtherData(body) == [k \in DOMAIN body \ {"userId", "playerCount"} |-> body[k]]

\* Mutant: only the falsy check, the typeof check forgotten.
BadUserIdNoTypeof(body) == ~Truthy(Get(body, "userId"))

\* !userId || typeof userId !== 'string'
BadUserId(body) ==
    \/ ~Truthy(Get(body, "userId"))
    \/ TypeOf(Get(body, "userId")) # "string"

\* Mutant: playerCount || 0, which keeps any truthy value.
StoredCountOrZero(body) ==
    IF Truthy(Get(body, "playerCount")) THEN Get(body, "playerCount") ELSE Num(0)

\* Mutant: a numeric playerCount clamped at zero (Math.max(0, playerCount)).
StoredCountClamped(body) ==
    IF TypeOf(Get(body, "playerCount")) = "number"
        /\ IsFinite(Get(body, "playerCount"))
        /\ Get(body, "playerCount").n >= 0
    THEN Get(body, "playerCount")
    ELSE Num(0)

\* typeof playerCount === 'number' ? playerCount : 0
StoredCount(body) ==
    IF TypeOf(Get(body, "playerCount")) = "number"
    THEN Get(body, "playerCount")
    ELSE Num(0)

\* { playerCount: ..., lastUpdated: Date.now(), ...otherData }: a later key
\* of the literal overrides an earlier one.
BuildRecord(body, t) ==
    OtherData(body)
        @@ ("playerCount" :> StoredCount(body))
        @@ ("lastUpdated" :> Num(t))

----------------------------------------------------------------------------
(* The aggregate, as GET /player-count and sendCounts each compute it.     *)

Counted(user) ==
    /\ Truthy(Get(user, "playerCount"))
    /\ TypeOf(Get(user, "playerCount")) = "number"

RECURSIVE CountsFrom(_, _)
\* userData.forEach(user => { current += ...; total += ... })
CountsFrom(acc, m) ==
    IF m = <<>> THEN acc
    ELSE CountsFrom(
            IF Counted(Head(m)[2])
            THEN [current |-> Plus(acc.current, Head(m)[2]["playerCount"]),
                  total |-> Plus(acc.total, Head(m)[2]["playerCount"])]
            ELSE acc,
            Tail(m))

\* Mutant: total counts the reporting users instead of summing their counts.
PlayerCountTotalOfUsers(m) ==
    [current |-> CountsFrom([current |-> Num(0), total |-> Num(0)], m).current,
     total |-> Num(Len(m))]

\* lines 77-85 of the GET handler
PlayerCount(m) == CountsFrom([current |-> Num(0), total |-> Num(0)], m)

RECURSIVE StreamCountsFrom(_, _, _)
\* sendCounts' own loop over the Map, lines 104-109, on its own let current
\* and let total.
StreamCountsFrom(current, total, m) ==
    IF m = <<>> THEN [current |-> current, total |-> total]
    ELSE LET user == Head(m)[2]
         IN  IF Truthy(Get(user, "playerCount"))
                /\ TypeOf(Get(user, "playerCount")) = "number"
             THEN StreamCountsFrom(Plus(current, user["playerCount"]),
                                   Plus(total, user["playerCount"]), Tail(m))
             ELSE StreamCountsFrom(current, total, Tail(m))

\* A sendCounts that reports the running total only: current stays 0.
SendCountsTotalOnly(m) ==
    JsonObject([current |-> Num(0), total |-> StreamCountsFrom(Num(0), Num(0), m).total])

\* lines 101-111 of sendCounts: the text after "data: "
SendCounts(m) == JsonObject(StreamCountsFrom(Num(0), Num(0), m))

----------------------------------------------------------------------------
(* Inputs. *)

ConnIds == 1..MaxConns
\* Values Date.now() returns.
Times == {1}

\* A request body with the given userId, playerCount (Undefined: key absent)
\* and further fields.
Body(u, p, extra) ==
    extra
        @@ (IF u = Undefined THEN <<>> ELSE "userId" :> u)
        @@ (IF p = Undefined THEN <<>> ELSE "playerCount" :> p)

NoExtra == <<>>

\* A report without a userId.
Anonymous == Body(Undefined, Num(3), NoExtra)

\* Two clients' reports: a count of Infinity is what JSON.parse makes of 1e999.
PlainBodies ==
    {Body(Str("a"), Num(3), NoExtra),
     Body(Str("a"), Infinity, NoExtra),
     Body(Str("b"), Num(5), NoExtra),
     Anonymous}

\* The reports of the stream's clients.
FewBodies ==
    {Body(Str("a"), Num(3), NoExtra), Body(Str("b"), Num(5), NoExtra), Anonymous}

\* One client's report.
OneBody == {Body(Str("a"), Num(3), NoExtra), Anonymous}

\* Bodies that exercise the handler's checks and the pass-through fields.
AnyBodies ==
    {Body(u, Num(3), NoExtra) : u \in {Undefined, Str(""), Num(7), Null}}
    \cup {Body(Str("a"), p, NoExtra) :
            p \in {Undefined, Num(3), Num(0 - 2), Str("9"), Null, True, Obj}}
    \cup {Body(Str("a"), Num(3), e) :
            e \in {"score" :> Num(1), "lastUpdated" :> Num(0)}}
    \cup {Body(Str("b"), Num(5), NoExtra), Body(Undefined, Undefined, NoExtra)}

----------------------------------------------------------------------------
(* State after construction: module load has run, init() has not yet.      *)

InitWith(files) ==
    /\ phase = "start"
    /\ file \in files
    /\ dirOk = (file.kind # "missing")
    /\ userData = EmptyMap
    /\ writes = <<>>
    /\ conns = [c \in ConnIds |-> [st |-> "idle", timer |-> FALSE, sent |-> 0]]
    /\ out = [kind |-> "none"]
    /\ dirty = {}
    /\ prior = [restarted |-> FALSE, counts |-> PlayerCount(EmptyMap),
                settled |-> TRUE, clean |-> TRUE, finite |-> TRUE]

----------------------------------------------------------------------------
(* Bootstrap: init(). *)

\* await ensureDataDir(): mkdir -p; a failure is logged and ignored.
EnsureDataDir ==
    /\ phase = "start"
    /\ phase' = "dirReady"
    /\ dirOk' \in (IF dirOk THEN {TRUE} ELSE BOOLEAN)
    /\ out' = [kind |-> "mkdir", ok |-> dirOk']
    /\ UNCHANGED <<userData, file, writes, conns, dirty, prior>>

\* init() calling loadUserData() without await: listen follows at once and
\* the load finishes while the server already handles requests.
LoadUserDataUnawaited ==
    /\ phase \in {"dirReady", "listening"}
    /\ phase' = (IF phase = "dirReady" THEN "loaded" ELSE phase)
    /\ userData' = (IF phase = "dirReady" THEN userData
                    ELSE IF file.kind = "pairs" THEN SetAll(EmptyMap, file.entries)
                    ELSE userData)
    /\ out' = (IF phase = "dirReady" THEN [kind |-> "mkdir", ok |-> dirOk]
               ELSE [kind |-> "load", ok |-> (file.kind = "pairs")])
    /\ UNCHANGED <<dirOk, file, writes, conns, dirty, prior>>

\* await loadUserData().  readFile or JSON.parse throwing leaves the Map as
\* it is.  Otherwise the Map is cleared and forEach sets the pairs one by one;
\* when forEach is missing or the destructuring of an entry throws, the catch
\* leaves the Map with what was set until then.
LoadUserData ==
    /\ phase = "dirReady"
    /\ phase' = "loaded"
    /\ userData' = CASE file.kind = "pairs" -> SetAll(EmptyMap, file.entries)
                      [] file.kind = "badlist" -> SetAll(EmptyMap, file.entries)
                      [] file.kind = "object" -> EmptyMap
                      [] OTHER -> userData
    /\ out' = [kind |-> "load", ok |-> (file.kind = "pairs")]
    /\ UNCHANGED <<dirOk, file, writes, conns, dirty, prior>>

\* app.listen(PORT, ...)
Listen ==
    /\ phase = "loaded"
    /\ phase' = "listening"
    /\ out' = [kind |-> "listen"]
    /\ UNCHANGED <<dirOk, userData, file, writes, conns, dirty, prior>>

----------------------------------------------------------------------------
(* POST /userlist. *)

\* The handler storing before it validates: the 400 comes after the set.
PostRejectedAfterSet(body, t) ==
    /\ phase = "listening"
    /\ BadUserId(body)
    /\ userData' = MapSet(userData, Get(body, "userId").s, BuildRecord(body, t))
    /\ out' = [kind |-> "post", status |-> 400, body |-> body, now |-> t]
    /\ UNCHANGED <<phase, dirOk, file, writes, conns, dirty, prior>>

\* The handler up to its return with 400: nothing else is touched.
PostRejected(body, t) ==
    /\ phase = "listening"
    /\ BadUserId(body)
    /\ out' = [kind |-> "post", status |-> 400, body |-> body, now |-> t]
    /\ UNCHANGED <<phase, dirOk, userData, file, writes, conns, dirty, prior>>

\* The handler storing in two parts around the await: the record goes in
\* without its playerCount, which is assigned once saveUserData has returned.
PostAcceptedInTwoParts(body, t) ==
    /\ phase = "listening"
    /\ ~BadUserId(body)
    /\ Len(writes) < MaxInFlight
    /\ userData' = MapSet(userData, Get(body, "userId").s,
                          OtherData(body) @@ ("lastUpdated" :> Num(t)))
    /\ writes' = Append(writes, [data |-> Stringify(userData')])
    /\ dirty' = (IF writes # <<>> THEN dirty \cup {"overlapped"} ELSE dirty)
    /\ out' = [kind |-> "post", status |-> 0, body |-> body, now |-> t,
               had |-> MapHas(userData, Get(body, "userId").s),
               old |-> IF MapHas(userData, Get(body, "userId").s)
                       THEN MapGet(userData, Get(body, "userId").s)
                       ELSE <<>>]
    /\ UNCHANGED <<phase, dirOk, file, conns, prior>>

\* The handler saving before it stores: the text written is the Map as it was.
PostAcceptedSavesFirst(body, t) ==
    /\ phase = "listening"
    /\ ~BadUserId(body)
    /\ Len(writes) < MaxInFlight
    /\ userData' = MapSet(userData, Get(body, "userId").s, BuildRecord(body, t))
    /\ writes' = Append(writes, [data |-> Stringify(userData)])
    /\ dirty' = (IF writes # <<>> THEN dirty \cup {"overlapped"} ELSE dirty)
    /\ out' = [kind |-> "post", status |-> 0, body |-> body, now |-> t,
               had |-> MapHas(userData, Get(body, "userId").s),
               old |-> IF MapHas(userData, Get(body, "userId").s)
                       THEN MapGet(userData, Get(body, "userId").s)
                       ELSE <<>>]
    /\ UNCHANGED <<phase, dirOk, file, conns, prior>>

\* The handler up to the await inside saveUserData: the record is put in the
\* Map, the Map is stringified, and fs.writeFile is started with that text.
PostAccepted(body, t) ==
    /\ phase = "listening"
    /\ ~BadUserId(body)
    /\ Len(writes) < MaxInFlight
    /\ userData' = MapSet(userData, Get(body, "userId").s, BuildRecord(body, t))
    /\ writes' = Append(writes, [data |-> Stringify(userData')])
    /\ dirty' = (IF writes # <<>> THEN dirty \cup {"overlapped"} ELSE dirty)
    /\ out' = [kind |-> "post", status |-> 0, body |-> body, now |-> t,
               had |-> MapHas(userData, Get(body, "userId").s),
               old |-> IF MapHas(userData, Get(body, "userId").s)
                       THEN MapGet(userData, Get(body, "userId").s)
                       ELSE <<>>]
    /\ UNCHANGED <<phase, dirOk, file, conns, prior>>

PostUserlist(body, t) == PostRejected(body, t) \/ PostAccepted(body, t)

Without(q, i) == [j \in 1..(Len(q) - 1) |-> IF j < i THEN q[j] ELSE q[j + 1]]

\* What the handler does once saveUserData returns: saveUserData has caught
\* and logged a rejected writeFile, so the handler sees no exception.
Reply(i, result) ==
    /\ writes' = Without(writes, i)
    /\ out' = [kind |-> "reply", status |-> 200, wrote |-> result,
               data |-> writes[i].data]

\* fs.writeFile resolves: the file holds the text this call was given.
WriteDone(i) ==
    /\ i \in DOMAIN writes
    /\ dirOk
    /\ file' = writes[i].data
    /\ Reply(i, "ok")
    /\ UNCHANGED <<phase, dirOk, userData, conns, dirty, prior>>

\* fs.writeFile resolves while another call on the same file is in flight:
\* each call truncates and writes from offset 0, so the bytes of the two can
\* mix and the file is not the text of either.
WriteTorn(i) ==
    /\ i \in DOMAIN writes
    /\ dirOk
    /\ Len(writes) > 1
    /\ file' = Corrupt
    /\ dirty' = dirty \cup {"overlapped"}
    /\ Reply(i, "torn")
    /\ UNCHANGED <<phase, dirOk, userData, conns, prior>>

\* A handler that undoes its set when the write fails: the Map goes back to
\* what the file holds.
WriteFailRollsBack(i) ==
    /\ i \in DOMAIN writes
    /\ file' \in (IF dirOk THEN {file, Corrupt} ELSE {file})
    /\ userData' = (IF file.kind = "pairs" THEN SetAll(EmptyMap, file.entries)
                    ELSE EmptyMap)
    /\ dirty' = dirty \cup {"failed"}
    /\ Reply(i, "failed")
    /\ UNCHANGED <<phase, dirOk, conns, prior>>

\* fs.writeFile rejects: the file is as it was (open failed) or cut short
\* (the write failed after the truncating open).
WriteFail(i) ==
    /\ i \in DOMAIN writes
    /\ file' \in (IF dirOk THEN {file, Corrupt} ELSE {file})
    /\ dirty' = dirty \cup {"failed"}
    /\ Reply(i, "failed")
    /\ UNCHANGED <<phase, dirOk, userData, conns, prior>>

----------------------------------------------------------------------------
(* GET /player-count. *)

GetPlayerCount ==
    /\ phase = "listening"
    /\ out' = [kind |-> "counts", status |-> 200, body |-> PlayerCount(userData)]
    /\ UNCHANGED <<phase, dirOk, userData, file, writes, conns, dirty, prior>>

----------------------------------------------------------------------------
(* GET /player-count-stream. *)

\* Mutant: the connect handler without its own sendCounts() call; the first
\* event waits for the timer.
StreamConnectSilent(c) ==
    /\ phase = "listening"
    /\ conns[c].st = "idle"
    /\ conns' = [conns EXCEPT ![c] = [st |-> "open", timer |-> TRUE, sent |-> 0]]
    /\ out' = [kind |-> "open", conn |-> c]
    /\ UNCHANGED <<phase, dirOk, userData, file, writes, dirty, prior>>

\* The connect handler: writeHead, sendCounts(), setInterval, req.on('close').
StreamConnect(c) ==
    /\ phase = "listening"
    /\ conns[c].st = "idle"
    /\ conns' = [conns EXCEPT ![c] = [st |-> "open", timer |-> TRUE, sent |-> 1]]
    /\ out' = [kind |-> "event", conn |-> c, by |-> "connect",
               data |-> SendCounts(userData)]
    /\ UNCHANGED <<phase, dirOk, userData, file, writes, dirty, prior>>

\* One firing of the connection's interval: sendCounts().
TimerTick(c) ==
    /\ conns[c].timer
    /\ conns' = [conns EXCEPT ![c].sent = 1 - @]
    /\ out' = [kind |-> "event", conn |-> c, by |-> "timer",
               data |-> SendCounts(userData)]
    /\ UNCHANGED <<phase, dirOk, userData, file, writes, dirty, prior>>

\* A 'close' listener on a timer shared by the connections: it clears all.
StreamCloseClearsAll(c) ==
    /\ conns[c].st = "open"
    /\ conns' = [d \in ConnIds |->
                   IF d = c THEN [conns[d] EXCEPT !.st = "closed", !.timer = FALSE]
                   ELSE [conns[d] EXCEPT !.timer = FALSE]]
    /\ out' = [kind |-> "close", conn |-> c]
    /\ UNCHANGED <<phase, dirOk, userData, file, writes, dirty, prior>>

\* Mutant: a 'close' listener that does not clear the interval.
StreamCloseKeepsTimer(c) ==
    /\ conns[c].st = "open"
    /\ conns' = [conns EXCEPT ![c] = [@ EXCEPT !.st = "closed"]]
    /\ out' = [kind |-> "close", conn |-> c]
    /\ UNCHANGED <<phase, dirOk, userData, file, writes, dirty, prior>>

\* The 'close' listener: clearInterval(interval).
StreamClose(c) ==
    /\ conns[c].st = "open"
    /\ conns' = [conns EXCEPT ![c] = [@ EXCEPT !.st = "closed", !.timer = FALSE]]
    /\ out' = [kind |-> "close", conn |-> c]
    /\ UNCHANGED <<phase, dirOk, userData, file, writes, dirty, prior>>

----------------------------------------------------------------------------
(* The process is stopped and started again.  Its memory, its timers and   *)
(* its sockets are gone; the file is what is left.  A writeFile that was   *)
(* in flight may have written its text, part of it, or nothing.            *)

AllFinite(m) == \A i \in DOMAIN m : m[i][2] = JsonObject(m[i][2])

Restart ==
    /\ phase = "listening"
    /\ prior' = [restarted |-> TRUE,
                 counts |-> PlayerCount(userData),
                 settled |-> (writes = <<>>),
                 clean |-> (dirty = {}),
                 finite |-> AllFinite(userData)]
    /\ file' \in {file} \cup
                 (IF dirOk /\ writes # <<>>
                  THEN {Corrupt} \cup {writes[i].data : i \in DOMAIN writes}
                  ELSE {})
    /\ phase' = "start"
    /\ userData' = EmptyMap
    /\ writes' = <<>>
    /\ dirty' = {}
    /\ conns' = [c \in ConnIds |->
                    IF conns[c].st = "idle" THEN conns[c]
                    ELSE [conns[c] EXCEPT !.st = "closed", !.timer = FALSE]]
    /\ out' = [kind |-> "restart"]
    /\ UNCHANGED dirOk

----------------------------------------------------------------------------
(* Specifications. *)

Boot == EnsureDataDir \/ LoadUserData \/ Listen

Writes == \E i \in 1..MaxInFlight : WriteDone(i) \/ WriteTorn(i) \/ WriteFail(i)

Streams == \E c \in ConnIds : StreamConnect(c) \/ TimerTick(c) \/ StreamClose(c)

Init == InitWith({Missing, Corrupt})

\* The store and the file over restarts, under well-formed reports.
Next ==
    \/ Boot
    \/ \E b \in PlainBodies, t \in Times : PostUserlist(b, t)
    \/ Writes
    \/ GetPlayerCount
    \/ Restart

Spec == Init /\ [][Next]_vars

\* The submission path, under every kind of request body.
NextSubmit ==
    \/ Boot
    \/ \E b \in AnyBodies, t \in Times : PostUserlist(b, t)
    \/ Writes
    \/ GetPlayerCount

SpecSubmit == Init /\ [][NextSubmit]_vars

\* The stream, with reports arriving while connections are open.
NextStream ==
    \/ Boot
    \/ \E b \in FewBodies, t \in Times : PostUserlist(b, t)
    \/ Writes
    \/ GetPlayerCount
    \/ Streams

SpecStream == Init /\ [][NextStream]_vars

\* The stream of one reporting client, with its timers: setInterval keeps
\* firing a timer that has not been cleared.
NextStreamLive ==
    \/ Boot
    \/ \E b \in OneBody, t \in Times : PostUserlist(b, t)
    \/ Writes
    \/ Streams

SpecStreamLive ==
    Init /\ [][NextStreamLive]_vars /\ \A c \in ConnIds : WF_vars(TimerTick(c))

\* A record as an earlier process wrote it to the file.
SavedRecord == JsonObject(BuildRecord(Body(Str("b"), Num(5), NoExtra), 1))

\* What init() may find on disk: nothing, text that is not JSON, JSON that is
\* not a list, a list with an entry that is not a pair, and a saved Map.
AnyFiles ==
    { Missing, Corrupt, NotAList,
      PairsThenNot(<< <<"b", SavedRecord>> >>),
      Stringify(<< <<"b", SavedRecord>> >>) }

InitLoad == InitWith(AnyFiles)

\* Bootstrap from any file, then one user's submissions, reads and restarts.
NextLoad ==
    \/ Boot
    \/ \E body \in OneBody, t \in Times : PostUserlist(body, t)
    \/ Writes
    \/ GetPlayerCount
    \/ Restart

SpecLoad == InitLoad /\ [][NextLoad]_vars

----------------------------------------------------------------------------
(* Properties. *)

\* The last step was a POST /userlist that got past the userId check.
Accepted == out.kind = "post" /\ out.status = 0

\* The record the store holds for the userId of the last accepted POST.
Stored == MapGet(userData, out.body["userId"].s)

\* The fields of a body that are neither userId nor playerCount.
ExtraKeys(body) == DOMAIN body \ {"userId", "playerCount"}

\* C1: the store holds at most one record per userId, and right after an
\* accepted submission the record of its userId is the one built from that
\* submission alone: a numeric playerCount is the submitted one, the extra
\* fields are exactly the submitted extra fields with their submitted
\* values, and nothing of an earlier record of that userId is left.
C1_OneRecordFullReplace ==
    /\ \A i, j \in DOMAIN userData :
            userData[i][1] = userData[j][1] => i = j
    /\ Accepted =>
        /\ MapHas(userData, out.body["userId"].s)
        /\ DOMAIN Stored = {"playerCount", "lastUpdated"} \cup ExtraKeys(out.body)
        /\ \A k \in ExtraKeys(out.body) \ {"lastUpdated"} : Stored[k] = out.body[k]
        /\ Get(out.body, "playerCount").t = "number"
                => Stored["playerCount"] = out.body["playerCount"]

\* A second submission for a userId whose first submission carried a field
\* (score) and a count that the second does not, with another user stored.
C1_Witness ==
    /\ Accepted
    /\ out.had
    /\ "score" \in DOMAIN out.old
    /\ "score" \notin DOMAIN out.body
    /\ out.old["playerCount"] # Stored["playerCount"]
    /\ Len(userData) = 2

\* userId missing, empty, or not a string.
InvalidUserId(body) ==
    \/ "userId" \notin DOMAIN body
    \/ body["userId"] = Str("")
    \/ body["userId"].t # "string"

\* C2: a POST /userlist whose userId is missing, empty or not a string is
\* answered 400 and changes neither the Map nor the file, and starts no write.
\* (out' holds the body of the request a step handled, and only a step of
\* the POST handler leaves a "post" there.)
C2_InvalidUserIdRejected ==
    [][(out'.kind = "post" /\ InvalidUserId(out'.body))
            => /\ out'.status = 400
               /\ userData' = userData
               /\ writes' = writes
               /\ file' = file]_vars

\* A rejected POST with a non-string userId, while the store holds a record
\* and a write is in flight.
C2_Witness ==
    /\ out.kind = "post"
    /\ out.status = 400
    /\ Get(out.body, "userId") = Num(7)
    /\ userData # <<>>
    /\ writes # <<>>

\* The first state of a process that was started from the file a stopped
\* process left behind.
Restarted == out.kind = "listen" /\ prior.restarted

CountOf(m, i) == Get(m[i][2], "playerCount")

\* The indices of the records whose playerCount is a number.
Numeric(m) == {i \in DOMAIN m : CountOf(m, i).t = "number"}

RECURSIVE SumN(_, _)
SumN(m, idx) ==
    IF idx = {} THEN 0
    ELSE LET i == CHOOSE x \in idx : TRUE
         IN CountOf(m, i).n + SumN(m, idx \ {i})

\* The sum of playerCount over the records where it is a number, as a
\* JavaScript number: Infinity as soon as one of them is.
NumberSum(m) ==
    IF \E i \in Numeric(m) : CountOf(m, i).s = "Infinity"
    THEN Infinity
    ELSE Num(SumN(m, Numeric(m)))

C4_WitnessNonNumber ==
    /\ out.kind = "counts"
    /\ out.body = [current |-> Num(5), total |-> Num(5)]
    /\ Len(userData) = 2
    /\ \E i \in DOMAIN userData : CountOf(userData, i) = Null

\* The event text for the store as it is: {"current": sum, "total": sum}.
EventOf(m) ==
    [current |-> JsonValue(NumberSum(m)), total |-> JsonValue(NumberSum(m))]

\* C5: the step that opens a stream connection itself writes the first
\* event; an open connection has its timer running and, the timer being
\* fair, is written an event again and again for as long as it stays open;
\* every event written carries the aggregate of the store as it is when the
\* event is written.
C5_StreamEmits ==
    /\ [][\A c \in ConnIds :
            (conns[c].st = "idle" /\ conns'[c].st = "open")
                => /\ out'.kind = "event"
                   /\ out'.conn = c
                   /\ out'.data = EventOf(userData')]_vars
    /\ [](\A c \in ConnIds : conns[c].st = "open" => conns[c].timer)
    /\ [](out.kind = "event" => out.data = EventOf(userData))
    /\ \A c \in ConnIds :
            /\ []<>(conns[c].st # "open" \/ conns[c].sent = 0)
            /\ []<>(conns[c].st # "open" \/ conns[c].sent = 1)

\* A connection's second event, written by its timer, carrying the count of
\* a report that came in after the first and whose write is still in flight.
C5_Witness ==
    /\ out.kind = "event"
    /\ out.by = "timer"
    /\ out.data = [current |-> Num(3), total |-> Num(3)]
    /\ conns[out.conn].sent = 0
    /\ writes # <<>>
    /\ file.kind # "pairs"

\* C6: once a connection is closed its timer is gone and nothing is written
\* to it any more: it stays closed and the parity of the events written to
\* it never changes again, and every event written goes to an open connection.
C6_NoEventAfterClose ==
    /\ [](\A c \in ConnIds : conns[c].st = "closed" => ~conns[c].timer)
    /\ [](out.kind = "event" => conns[out.conn].st = "open")
    /\ [][\A c \in ConnIds :
            conns[c].st = "closed" => conns'[c] = conns[c]]_vars

\* One connection closed while the timer of another keeps writing events.
C6_Witness ==
    \E c, d \in ConnIds :
        /\ conns[c].st = "closed"
        /\ conns[d].st = "open"
        /\ out.kind = "event"
        /\ out.by = "timer"
        /\ out.conn = d

\* C7 as claimed: the lastUpdated of the record an accepted submission
\* stores is the server's clock value at that submission, whatever the body.
C7_LastUpdatedIsServerClock ==
    Accepted => Stored["lastUpdated"] = Num(out.now)

\* C8: every record a submission puts in the store has a playerCount that
\* is a number: the submitted one when that is a number, and 0 when it is
\* absent or anything else, whatever other fields the body carries.
C8_StoredCountIsNumber ==
    /\ \A i \in DOMAIN userData : CountOf(userData, i).t = "number"
    /\ Accepted =>
        Stored["playerCount"] =
            (IF "playerCount" \in DOMAIN out.body
                /\ out.body["playerCount"].t = "number"
             THEN out.body["playerCount"]
             ELSE Num(0))

\* A submission whose playerCount is a string is stored with 0.
C8_Witness ==
    /\ Accepted
    /\ Get(out.body, "playerCount") = Str("9")
    /\ Stored["playerCount"] = Num(0)

\* C9 as claimed: every stored playerCount is a non-negative integer.
C9_CountsNonNegative ==
    \A i \in DOMAIN userData :
        /\ CountOf(userData, i).t = "number"
        /\ CountOf(userData, i).n >= 0

\* C9 as amended: every stored playerCount is a number, with the sign of the
\* number submitted: a negative report is stored as it is (and then the
\* aggregate can be negative), and while no stored count is negative the
\* aggregate is not negative either.
C9_CountsKeepTheirSign ==
    /\ \A i \in DOMAIN userData : CountOf(userData, i).t = "number"
    /\ (Accepted /\ Get(out.body, "playerCount").t = "number")
            => (Stored["playerCount"].n < 0 <=> out.body["playerCount"].n < 0)
    /\ (\A i \in DOMAIN userData : CountOf(userData, i).n >= 0)
            => PlayerCount(userData).current.n >= 0

\* GET /player-count answers a negative aggregate after a negative report.
C9_Witness ==
    /\ out.kind = "counts"
    /\ out.body.current.n < 0
    /\ \E i \in DOMAIN userData : CountOf(userData, i) = Num(0 - 2)

\* C10 as claimed: a POST /userlist whose file write failed is not answered
\* with 200; it is answered 500.
C10_WriteFailureIs500 ==
    (out.kind = "reply" /\ out.wrote = "failed") => out.status = 500


\* C11: when loadUserData fails - the file is missing, is not JSON, or is JSON
\* that is not a list of [userId, record] pairs - the Map is empty afterwards
\* and the bootstrap goes on.
C11_FailedLoadLeavesMapEmpty ==
    /\ (out.kind = "load" /\ ~out.ok) => userData = EmptyMap
    /\ phase = "loaded" => ENABLED Listen

\* C12: an accepted POST starts a write whose text is the whole Map taken
\* after its own record was put in the store, and its success response is
\* sent in the step in which that write finishes, well or badly, not before.
C12_ReplyAfterOwnWrite ==
    /\ [](Accepted =>
            /\ writes # <<>>
            /\ writes[Len(writes)].data = Stringify(userData)
            /\ \E j \in DOMAIN writes[Len(writes)].data.entries :
                 writes[Len(writes)].data.entries[j]
                   = <<out.body["userId"].s, JsonObject(Stored)>>)
    /\ [][out'.kind = "post" => out'.status # 200 /\ Len(writes') >= Len(writes)]_vars
    /\ [][out'.kind = "reply" =>
            \E i \in DOMAIN writes :
                /\ writes' = Without(writes, i)
                /\ out'.data = writes[i].data
                /\ out'.status = 200]_vars

\* The response to the first of two overlapping submissions, whose write failed.
C12_Witness ==
    /\ out.kind = "reply"
    /\ out.wrote = "failed"
    /\ out.data = Stringify(<< <<"a", BuildRecord(Body(Str("a"), Num(3), NoExtra), 1)>> >>)
    /\ Len(writes) = 1
    /\ Len(userData) = 2

\* C13: once the server listens, the Map changes only in the step of an
\* accepted POST and the file only in the step that finishes such a POST's
\* write; GET /player-count, a stream's connect, tick and close, and a
\* rejected POST leave both as they are.
C13_OnlyAcceptedPostChanges ==
    /\ [][userData' # userData => (out'.kind = "post" /\ out'.status = 0)]_vars
    /\ [][file' # file => out'.kind = "reply"]_vars
    /\ [][out'.kind \in {"counts", "event", "close"} \/ (out'.kind = "post" /\ out'.status = 400)
            => userData' = userData /\ file' = file /\ writes' = writes]_vars

\* A connection closes while the Map holds two records, one of them saved and
\* the other still being written.
C13_Witness ==
    /\ out.kind = "close"
    /\ Len(userData) = 2
    /\ file.kind = "pairs"
    /\ Len(writes) = 1
    /\ \E c \in ConnIds : conns[c].st = "open" /\ conns[c].sent = 0

\* C14: init() goes through ensureDataDir, loadUserData and listen in that
\* order, and a failed mkdir or a failed load still lets it reach listen; a
\* handler step happens only while the server listens, so loadUserData runs on
\* a Map no submission has touched and with no write in flight.
C14_ListenAfterLoad ==
    /\ [][phase' # phase =>
            <<phase, phase'>> \in { <<"start", "dirReady">>, <<"dirReady", "loaded">>,
                                    <<"loaded", "listening">>, <<"listening", "start">> }]_vars
    /\ [][out'.kind \in {"post", "reply", "counts", "event", "close"}
            => phase = "listening" /\ phase' = "listening"]_vars
    /\ [][out'.kind = "load" => phase = "dirReady" /\ userData = EmptyMap /\ writes = <<>>]_vars
    /\ [](phase # "listening" => writes = <<>>)
    /\ [](phase = "start" => ENABLED EnsureDataDir)
    /\ [](phase = "dirReady" => ENABLED LoadUserData)
    /\ [](phase = "loaded" => ENABLED Listen)

\* The server listens although mkdir failed and there was no file to load.
C14_Witness ==
    /\ out.kind = "listen"
    /\ phase = "listening"
    /\ ~dirOk
    /\ file.kind = "missing"
    /\ userData = EmptyMap

\* C15: a connection has an interval timer exactly while it is open, so there
\* are as many timers as open connections; connecting starts the timer of
\* that connection alone and closing cancels that one alone.
C15_OneTimerPerOpenConnection ==
    /\ [](\A c \in ConnIds : conns[c].timer <=> conns[c].st = "open")
    /\ [](Cardinality({c \in ConnIds : conns[c].timer})
            = Cardinality({c \in ConnIds : conns[c].st = "open"}))
    /\ [][\A c \in ConnIds :
            conns'[c].timer # conns[c].timer =>
                /\ out'.kind \in {"event", "close"}
                /\ out'.conn = c
                /\ \A d \in ConnIds \ {c} : conns'[d] = conns[d]]_vars

\* One connection has just closed; the timer of the other is still set.
C15_Witness ==
    \E c, d \in ConnIds :
        /\ out.kind = "close"
        /\ out.conn = c
        /\ ~conns[c].timer
        /\ conns[d].st = "open"
        /\ conns[d].timer
        /\ conns[d].sent = 0

\* C16: while one process listens, no step removes a userId from the Map:
\* the keys before a step are among the keys after it, whatever submissions,
\* reads and write completions or failures interleave.
C16_UserIdsNeverShrink ==
    [][(phase = "listening" /\ phase' = "listening")
         => /\ MapKeys(userData) \subseteq MapKeys(userData')
            /\ Len(userData') >= Len(userData)]_vars

\* A known user submits again after a write of this process has failed, while
\* the Map holds two users.
C16_Witness ==
    /\ Accepted
    /\ out.had
    /\ "failed" \in dirty
    /\ MapKeys(userData) = {"a", "b"}

\* A record as one whole submission leaves it in the store.
Whole(user) ==
    /\ {"playerCount", "lastUpdated"} \subseteq DOMAIN user
    /\ TypeOf(user["playerCount"]) = "number"

\* C17: the store only ever moves from one state to the next by a whole
\* submission (one record put, complete), and every aggregate returned by GET
\* /player-count or written to a stream is the sum over the store as it is at
\* that step, also while submissions wait for their file writes.
C17_AggregatesSeeWholeSubmissions ==
    /\ [](\A i \in DOMAIN userData : Whole(userData[i][2]))
    /\ [][userData' # userData =>
            /\ out'.kind = "post"
            /\ out'.status = 0
            /\ userData' = MapSet(userData, out'.body["userId"].s,
                                  BuildRecord(out'.body, out'.now))]_vars
    /\ [](out.kind = "counts" =>
            out.body = [current |-> NumberSum(userData), total |-> NumberSum(userData)])
    /\ [](out.kind = "event" => out.data = EventOf(userData))

\* A GET answered while two submissions wait for their writes.
C17_Witness ==
    /\ out.kind = "counts"
    /\ out.body = [current |-> Num(8), total |-> Num(8)]
    /\ Len(writes) = 2
    /\ file.kind # "pairs"

\* C18 as claimed: when a write has just finished, none is in flight and no
\* write of this process has failed, the file holds the serialisation of the
\* Map as it is now, also when submissions overlapped.
C18_FileEqualsMapWhenQuiet ==
    (/\ phase = "listening"
     /\ out.kind = "reply"
     /\ writes = <<>>
     /\ "failed" \notin dirty)
        => file = Stringify(userData)

\* C19: the record of a submission is in the store, and so in every aggregate,
\* from the step that accepts it, before its response and whatever becomes of
\* its write: reads made while writes are in flight sum the store that holds
\* it, and the step that finishes a write, also a failed one, leaves the
\* store as it is.
C19_VisibleBeforeAcknowledged ==
    /\ [](Accepted =>
            /\ writes # <<>>
            /\ MapHas(userData, out.body["userId"].s)
            /\ Stored = BuildRecord(out.body, out.now))
    /\ [](\A i \in DOMAIN writes : \A j \in DOMAIN writes[i].data.entries :
            MapHas(userData, writes[i].data.entries[j][1]))
    /\ [][(writes # <<>> /\ out'.kind = "counts") =>
            out'.body = PlayerCount(userData) /\ userData' = userData]_vars
    /\ [][(writes # <<>> /\ out'.kind = "event") =>
            out'.data = JsonObject(PlayerCount(userData)) /\ userData' = userData]_vars
    /\ [][out'.kind = "reply" => userData' = userData]_vars

\* A timer's event counts 3 from a submission whose write failed and 5 from
\* one whose write is still in flight; the file holds neither.
C19_Witness ==
    /\ out.kind = "event"
    /\ out.by = "timer"
    /\ out.data = JsonObject([current |-> Num(8), total |-> Num(8)])
    /\ Len(writes) = 1
    /\ dirty = {"failed"}
    /\ file.kind # "pairs"

\* The playerCount fields a record of the store can hold: a number as an
\* accepted POST stores it, or the null a non-finite count becomes in the file.
CountValues == {Num(3), Num(0), Num(-2), Infinity, Null}

\* Stores of one and of two records over those fields.
SampleStores ==
    { << <<"a", ("playerCount" :> p)>> >> : p \in CountValues }
      \cup { << <<"a", ("playerCount" :> p)>>, <<"b", ("playerCount" :> q)>> >> :
               p \in CountValues, q \in CountValues }

\* C20: polling and push agree: for the store of every state, and (compared
\* once, before the bootstrap) for stores with zero, negative, non-finite and
\* null counts, the payload sendCounts writes is the {current, total} pair
\* GET /player-count answers with; every event written and every GET
\* answered carries that pair.
C20_StreamAgreesWithGet ==
    /\ phase = "start" =>
         \A m \in SampleStores \cup {EmptyMap} : SendCounts(m) = JsonObject(PlayerCount(m))
    /\ SendCounts(userData) = JsonObject(PlayerCount(userData))
    /\ out.kind = "event" => out.data = JsonObject(PlayerCount(userData))
    /\ out.kind = "counts" => JsonObject(out.body) = SendCounts(userData)

\* A stream's first event on a store of two users.
C20_Witness ==
    /\ out.kind = "event"
    /\ out.by = "connect"
    /\ out.data = JsonObject([current |-> Num(8), total |-> Num(8)])
    /\ MapKeys(userData) = {"a", "b"}
    /\ writes = <<>>

====
